---- MODULE Spec2Model ----
(***************************************************************************)
(* Model of the precisionpour logo asset codec:                            *)
(*   tools/convert_logo.py          trim_black_borders, rle_compress,      *)
(*                                  convert_to_lvgl_rgb565, main           *)
(*   tools/convert_logo_no_swap.py  convert_to_lvgl_rgb565_no_swap, main   *)
(*   tools/test_rle_compression.py  rle_compress, rle_decompress,          *)
(*                                  analyze_image_compression,             *)
(*                                  analyze_trimmed_logo                   *)
(* and of the build helper                                                 *)
(*   scripts/patch_memory_layout.py patch_memory_layout_utils              *)
(* Bytes are integers 0..255, byte lists are sequences, Python's 0-based   *)
(* index k is the sequence position k + 1.                                 *)
(***************************************************************************)
EXTENDS Integers, Sequences, FiniteSets, TLC

VARIABLES
    pc,             \* position of the running function
    img,            \* the RGB image handed to the function under study
    threshold,      \* threshold argument of trim_black_borders
    trimmed,        \* the image trim_black_borders returned
    again,          \* the image a second trim_black_borders returned
    trim_borders,   \* argument of convert_to_lvgl_rgb565
    use_rle,        \* argument of convert_to_lvgl_rgb565
    rgb565_data,    \* convert_to_lvgl_rgb565: the byte list to be written
    original_size,  \* convert_to_lvgl_rgb565: len(rgb565_data) after packing
    is_compressed,  \* convert_to_lvgl_rgb565: the compression flag
    asset,          \* the header file written by convert_to_lvgl_rgb565
    data,           \* argument of rle_compress
    i,              \* rle_compress: the read index
    compressed,     \* rle_compress: the output list; argument of rle_decompress
    di,             \* rle_decompress: the read index
    decompressed,   \* rle_decompress: the output list
    stats,          \* analyze_image_compression: i, runs, literals of the
                    \* statistics loop
    analysis,       \* analyze_trimmed_logo: its img, rgb565_data, compressed,
                    \* decompressed and returned result
    convs,          \* two conversions running side by side: the local
                    \* variables of each
    files,          \* the header files those conversions write, by path
    patch           \* patch_memory_layout_utils: memory_layout_utils.c on
                    \* disk, the content read from it, and the runs so far

vars == <<pc, img, threshold, trimmed, again, trim_borders, use_rle,
          rgb565_data, original_size, is_compressed, asset,
          data, i, compressed, di, decompressed,
          stats, analysis, convs, files, patch>>

imgVars == <<img, threshold, trimmed, again>>
convVars == <<trim_borders, use_rle, rgb565_data, original_size, is_compressed, asset>>
encVars == <<data, i, compressed>>
decVars == <<di, decompressed>>
toolVars == <<stats, analysis, convs, files, patch>>

-----------------------------------------------------------------------------
(* Bounds of the model *)

\* most runs an input of rle_compress is built from
MaxSegs == 2
\* longest stream handed directly to rle_decompress
MaxStream == 4
\* the longest side of an image that has no pixels (width 0 or height 0)
ZeroMaxSide == 3

\* most pixels (width * height) of an image given to convert_to_lvgl_rgb565
MaxPixels == 4
\* most pixels of the logo given to analyze_trimmed_logo and to the converter
LogoMaxPixels == 6
\* most pixels of an image given to one of two conversions run side by side
ParMaxPixels == 2
\* largest width and height of an image given directly to trim_black_borders
TrimMaxW == 3
TrimMaxH == 3

(* Program constants *)

\* the RLE marker byte 0xFF
MARKER == 255
\* the escape byte that follows a literal marker
ESCAPE == 0
\* the cap of one run count
MaxRun == 255
\* the shortest run that is written as a token
MinRun == 4
\* the default threshold of trim_black_borders
DefaultThreshold == 10

\* value of the variables a function does not use
None == "none"

\* no image: the value of an image variable that is not assigned yet
NoImg == [w |-> -1, h |-> -1, px |-> <<>>]

\* runs = 0, literals = 0, i = 0: the counters of the statistics loop
NoStats == [i |-> 0, runs |-> 0, literals |-> 0]

\* analyze_trimmed_logo before it is called: its position, its local
\* variables and the sizes it returns
NoAnalysis ==
    [pc |-> "idle", img |-> NoImg, rgb565_data |-> <<>>, compressed |-> <<>>,
     decompressed |-> <<>>, returned |-> "nothing",
     original |-> 0, compressed_size |-> 0]

\* the two command line tools that are run side by side
Tools == {"convert_logo", "convert_logo_no_swap"}

\* include/images/precision_pour_logo.h, the output path both tools use by
\* default, and a path given with --output
DefaultOutput == "include/images/precision_pour_logo.h"
OtherOutput == "other.h"
Paths == {DefaultOutput, OtherOutput}

\* a header file nothing was written to: no comment block, no data array,
\* no defines, no descriptor
EmptyFile == [preamble |-> <<>>, data |-> <<>>, defines |-> <<>>,
              descriptor |-> <<>>]

\* the sections convert_to_lvgl_rgb565 writes to the header file, in order:
\* the data array, the defines, the image descriptor
Sections == {"data", "defines", "descriptor"}

\* a header file that was never opened for writing
NoFile ==
    [state |-> "untouched", sections |-> {}, data |-> <<>>,
     is_compressed |-> 0, has_uncompressed_size |-> FALSE,
     uncompressed_size |-> 0, w |-> 0, h |-> 0, data_size |-> 0]

\* open(output_path, 'w'): the file exists, truncated to nothing
OpenedFile == [NoFile EXCEPT !.state = "open"]

\* patch_memory_layout_utils was never started and memory_layout_utils.c is
\* not looked at. exists and file are the file on disk, content is the local
\* variable, original is the file before the first run, runs the number of
\* runs that returned, writes the number of times the file was written.
NoPatch ==
    [exists |-> FALSE, file |-> <<>>, content |-> <<>>, original |-> <<>>,
     runs |-> 0, writes |-> 0]

-----------------------------------------------------------------------------
(* Inputs *)

\* byte values of the inputs of rle_compress
ByteVals == {0, 16, 32, 255}
\* run lengths of the inputs of rle_compress
RunLens == {1, 3, 4, 5, 256, 600}
\* byte values of the streams given directly to rle_decompress
StreamBytes == {0, 3, 16, 255}

Repeat(v, n) == [k \in 1..n |-> v]

RECURSIVE Expand(_)
Expand(segs) ==
    IF segs = <<>> THEN <<>>
    ELSE Repeat(Head(segs)[1], Head(segs)[2]) \o Expand(Tail(segs))

\* s is a sequence of at most n elements of S
IsSeqUpTo(s, S, n) == \E k \in 0..n : s \in [1..k -> S]

\* d is a byte list rle_compress is run on: at most MaxSegs runs
IsInput(d) ==
    \E k \in 0..MaxSegs :
        \E segs \in [1..k -> ByteVals \X RunLens] : d = Expand(segs)

\* pixel colours <<r, g, b>> of the images that are converted: black, just
\* at the threshold, red, white, and green just above the threshold with
\* full blue
Palette == {<<0, 0, 0>>, <<10, 10, 10>>, <<255, 0, 0>>, <<255, 255, 255>>,
            <<0, 11, 255>>}
\* pixel colours of the images that are only trimmed
TrimPalette == {<<0, 0, 0>>, <<0, 11, 0>>}
\* pixel colours of the logo: black, green just above the threshold, white
LogoPalette == {<<0, 0, 0>>, <<0, 11, 0>>, <<255, 255, 255>>}
\* pixel colours of the images converted side by side: black, and a colour
\* whose reduced green (2) and reduced blue (31) differ
ParPalette == {<<0, 0, 0>>, <<0, 11, 255>>}
\* thresholds given to trim_black_borders: the default, and one that leaves
\* no pixel of TrimPalette above it
Thresholds == {10, 11}

\* im is an image of at most W x H pixels with colours of pal: the size and
\* the pixels in row-major order, pixel (x, y) at position y * w + x + 1
IsImage(im, W, H, pal) ==
    \E w \in 1..W, h \in 1..H :
        \E p \in [1..(w * h) -> pal] : im = [w |-> w, h |-> h, px |-> p]

\* im is an image of at most n pixels, of any shape, with colours of pal
IsImageUpTo(im, n, pal) ==
    \E w \in 1..n, h \in 1..n :
        /\ w * h <= n
        /\ \E p \in [1..(w * h) -> pal] : im = [w |-> w, h |-> h, px |-> p]

\* im is an image with no pixels: its width or its height is 0
IsEmptyImage(im, n) ==
    \E w \in 0..n, h \in 0..n :
        /\ w = 0 \/ h = 0
        /\ im = [w |-> w, h |-> h, px |-> <<>>]

-----------------------------------------------------------------------------
(* trim_black_borders *)

\* pixels[x, y]
Pixel(im, x, y) == im.px[y * im.w + x + 1]

\* Bright with >= in place of >
BrightInclusive(p, t) == p[1] >= t \/ p[2] >= t \/ p[3] >= t

\* r > threshold or g > threshold or b > threshold
Bright(p, t) == p[1] > t \/ p[2] > t \/ p[3] > t

\* the inner loop over x finds a bright pixel in row y
RowHasBright(im, t, y) == \E x \in 0..(im.w - 1) : Bright(Pixel(im, x, y), t)

\* the inner loop over y finds a bright pixel in column x
ColHasBright(im, t, x) == \E y \in 0..(im.h - 1) : Bright(Pixel(im, x, y), t)

\* top = 0; for y in range(height) from y on: the first row with a bright pixel
RECURSIVE FindTop(_, _, _)
FindTop(im, t, y) ==
    IF y >= im.h THEN 0
    ELSE IF RowHasBright(im, t, y) THEN y ELSE FindTop(im, t, y + 1)

\* bottom = height - 1; for y in range(height - 1, -1, -1) from y on
RECURSIVE FindBottom(_, _, _)
FindBottom(im, t, y) ==
    IF y <= -1 THEN im.h - 1
    ELSE IF RowHasBright(im, t, y) THEN y ELSE FindBottom(im, t, y - 1)

\* left = 0; for x in range(width) from x on
RECURSIVE FindLeft(_, _, _)
FindLeft(im, t, x) ==
    IF x >= im.w THEN 0
    ELSE IF ColHasBright(im, t, x) THEN x ELSE FindLeft(im, t, x + 1)

\* right = width - 1; for x in range(width - 1, -1, -1) from x on
RECURSIVE FindRight(_, _, _)
FindRight(im, t, x) ==
    IF x <= -1 THEN im.w - 1
    ELSE IF ColHasBright(im, t, x) THEN x ELSE FindRight(im, t, x - 1)

\* img.crop((left, upper, right, lower)): right and lower are exclusive
Crop(im, left, upper, right, lower) ==
    LET cw == right - left
        ch == lower - upper
    IN [w |-> cw, h |-> ch,
        px |-> [k \in 1..(cw * ch) |->
                  Pixel(im, left + ((k - 1) % cw), upper + ((k - 1) \div cw))]]

\* trim_black_borders that crops to (left, top, right, bottom), without the + 1
trim_black_borders_exclusive(im, t) ==
    LET top == FindTop(im, t, 0)
        bottom == FindBottom(im, t, im.h - 1)
        left == FindLeft(im, t, 0)
        right == FindRight(im, t, im.w - 1)
    IN IF left < right /\ top < bottom
       THEN Crop(im, left, top, right, bottom)
       ELSE im

trim_black_borders(im, t) ==
    LET top == FindTop(im, t, 0)
        bottom == FindBottom(im, t, im.h - 1)
        left == FindLeft(im, t, 0)
        right == FindRight(im, t, im.w - 1)
    IN IF left < right /\ top < bottom
       THEN Crop(im, left, top, right + 1, bottom + 1)
       ELSE im

-----------------------------------------------------------------------------
(* RGB565 packing of convert_to_lvgl_rgb565 *)

RECURSIVE Pow2(_)
Pow2(n) == IF n = 0 THEN 1 ELSE 2 * Pow2(n - 1)

\* a << n and a >> n on non-negative integers
Shl(a, n) == a * Pow2(n)
Shr(a, n) == a \div Pow2(n)

\* a | b, bit by bit
RECURSIVE BitOr(_, _)
BitOr(a, b) ==
    IF a = 0 THEN b
    ELSE IF b = 0 THEN a
    ELSE (IF a % 2 = 1 \/ b % 2 = 1 THEN 1 ELSE 0) + 2 * BitOr(a \div 2, b \div 2)

\* a & b, bit by bit
RECURSIVE BitAnd(_, _)
BitAnd(a, b) ==
    IF a = 0 \/ b = 0 THEN 0
    ELSE (IF a % 2 = 1 /\ b % 2 = 1 THEN 1 ELSE 0) + 2 * BitAnd(a \div 2, b \div 2)

\* ((r >> 3) << 11) | ((g >> 2) << 5) | (b >> 3)
Rgb565(p) == BitOr(BitOr(Shl(Shr(p[1], 3), 11), Shl(Shr(p[2], 2), 5)), Shr(p[3], 3))

\* Pack that appends the high byte first
PackHighFirst(im) ==
    [k \in 1..(2 * im.w * im.h) |->
        LET n == (k - 1) \div 2
            rgb565 == Rgb565(Pixel(im, n % im.w, n \div im.w))
        IN IF k % 2 = 1 THEN BitAnd(Shr(rgb565, 8), 255)
           ELSE BitAnd(rgb565, 255)]

\* for y, for x: append the low byte, then the high byte of the pixel's word
Pack(im) ==
    [k \in 1..(2 * im.w * im.h) |->
        LET n == (k - 1) \div 2
            rgb565 == Rgb565(Pixel(im, n % im.w, n \div im.w))
        IN IF k % 2 = 1 THEN BitAnd(rgb565, 255)
           ELSE BitAnd(Shr(rgb565, 8), 255)]

-----------------------------------------------------------------------------
(* rle_compress *)

\* RunCount with the cap tested as count <= 255: a run may reach 256
RunCountCap256(d, p) ==
    LET Continues(c) ==
            p + c < Len(d) /\ d[p + c + 1] = d[p + 1] /\ c <= MaxRun
    IN CHOOSE c \in 1..(MaxRun + 1) :
            ~Continues(c) /\ \A k \in 1..(c - 1) : Continues(k)

\* the inner while loop: count grows from 1 while the next byte repeats and
\* count < 255; the result is the first count at which the condition fails
RunCount(d, p) ==
    LET Continues(c) ==
            p + c < Len(d) /\ d[p + c + 1] = d[p + 1] /\ c < MaxRun
    IN CHOOSE c \in 1..MaxRun :
            ~Continues(c) /\ \A k \in 1..(c - 1) : Continues(k)

\* Literals without the escape: the marker is written as itself
RECURSIVE LiteralsUnescaped(_, _, _, _)
LiteralsUnescaped(d, p, count, j) ==
    IF j >= count THEN <<>>
    ELSE <<d[p + j + 1]>> \o LiteralsUnescaped(d, p, count, j + 1)

\* the literal branch: for j in range(count), escaping the marker
RECURSIVE Literals(_, _, _, _)
Literals(d, p, count, j) ==
    IF j >= count THEN <<>>
    ELSE (IF d[p + j + 1] = MARKER THEN <<MARKER, ESCAPE>> ELSE <<d[p + j + 1]>>)
         \o Literals(d, p, count, j + 1)

\* CompressIter whose literal branch writes all count bytes but advances by one
CompressIterAdvanceOne(d, p, out) ==
    LET byte_val == d[p + 1]
        count == RunCount(d, p)
    IN IF count >= MinRun
       THEN [i |-> p + count, out |-> out \o <<MARKER, count, byte_val>>]
       ELSE [i |-> p + 1, out |-> out \o Literals(d, p, count, 0)]

\* CompressIter that writes a token only for a run longer than 4
CompressIterLongerThanMin(d, p, out) ==
    LET byte_val == d[p + 1]
        count == RunCount(d, p)
    IN IF count > MinRun
       THEN [i |-> p + count, out |-> out \o <<MARKER, count, byte_val>>]
       ELSE [i |-> p + count, out |-> out \o Literals(d, p, count, 0)]

\* CompressIter that writes a token for every run of 2 or more
CompressIterTokenFromTwo(d, p, out) ==
    LET byte_val == d[p + 1]
        count == RunCount(d, p)
    IN IF count >= 2
       THEN [i |-> p + count, out |-> out \o <<MARKER, count, byte_val>>]
       ELSE [i |-> p + count, out |-> out \o Literals(d, p, count, 0)]

\* one iteration of the outer while loop at read index p with output out
CompressIter(d, p, out) ==
    LET byte_val == d[p + 1]
        count == RunCount(d, p)
    IN IF count >= MinRun
       THEN [i |-> p + count, out |-> out \o <<MARKER, count, byte_val>>]
       ELSE [i |-> p + count, out |-> out \o Literals(d, p, count, 0)]

RECURSIVE CompressLoop(_, _, _)
CompressLoop(d, p, out) ==
    IF p < Len(d)
    THEN LET r == CompressIter(d, p, out) IN CompressLoop(d, r.i, r.out)
    ELSE out

rle_compress(d) == IF d = <<>> THEN <<>> ELSE CompressLoop(d, 0, <<>>)

-----------------------------------------------------------------------------
(* rle_decompress *)

\* DecompressIter whose escape branch advances by one instead of two
DecompressIterEscapeAdvanceOne(c, p, out) ==
    IF c[p + 1] = MARKER
    THEN IF p + 1 < Len(c) /\ c[p + 2] = ESCAPE
         THEN [i |-> p + 1, out |-> Append(out, MARKER)]
         ELSE IF p + 2 < Len(c)
              THEN [i |-> p + 3, out |-> out \o Repeat(c[p + 3], c[p + 2])]
              ELSE [i |-> p + 1, out |-> Append(out, c[p + 1])]
    ELSE [i |-> p + 1, out |-> Append(out, c[p + 1])]

\* DecompressIter whose malformed branch advances by three, as for a token
DecompressIterMalformedAdvanceThree(c, p, out) ==
    IF c[p + 1] = MARKER
    THEN IF p + 1 < Len(c) /\ c[p + 2] = ESCAPE
         THEN [i |-> p + 2, out |-> Append(out, MARKER)]
         ELSE IF p + 2 < Len(c)
              THEN [i |-> p + 3, out |-> out \o Repeat(c[p + 3], c[p + 2])]
              ELSE [i |-> p + 3, out |-> Append(out, c[p + 1])]
    ELSE [i |-> p + 1, out |-> Append(out, c[p + 1])]

\* one iteration of the while loop at read index p with output out
DecompressIter(c, p, out) ==
    IF c[p + 1] = MARKER
    THEN IF p + 1 < Len(c) /\ c[p + 2] = ESCAPE
         THEN [i |-> p + 2, out |-> Append(out, MARKER)]
         ELSE IF p + 2 < Len(c)
              THEN [i |-> p + 3, out |-> out \o Repeat(c[p + 3], c[p + 2])]
              ELSE [i |-> p + 1, out |-> Append(out, c[p + 1])]
    ELSE [i |-> p + 1, out |-> Append(out, c[p + 1])]

RECURSIVE DecompressLoop(_, _, _)
DecompressLoop(c, p, out) ==
    IF p < Len(c)
    THEN LET r == DecompressIter(c, p, out) IN DecompressLoop(c, r.i, r.out)
    ELSE out

rle_decompress(c) == DecompressLoop(c, 0, <<>>)

-----------------------------------------------------------------------------
(* The codec run step by step: compress data, then decompress the result *)

\* entry of rle_compress: the empty list returns at once
CompressEnter ==
    /\ pc = "rle_compress"
    /\ i' = 0
    /\ compressed' = <<>>
    /\ pc' = IF data = <<>> THEN "compressed" ELSE "compress_loop"
    /\ UNCHANGED toolVars
    /\ UNCHANGED <<imgVars, convVars, data, decVars>>

\* one iteration of the outer loop of rle_compress
CompressStep ==
    /\ pc = "compress_loop"
    /\ i < Len(data)
    /\ LET r == CompressIter(data, i, compressed)
       IN /\ i' = r.i
          /\ compressed' = r.out
    /\ UNCHANGED toolVars
    /\ UNCHANGED <<pc, imgVars, convVars, data, decVars>>

\* the loop condition fails: return compressed
CompressReturn ==
    /\ pc = "compress_loop"
    /\ i >= Len(data)
    /\ pc' = "compressed"
    /\ UNCHANGED toolVars
    /\ UNCHANGED <<imgVars, convVars, encVars, decVars>>

\* entry of rle_decompress on the compressed list
DecompressEnter ==
    /\ pc = "compressed"
    /\ di' = 0
    /\ decompressed' = <<>>
    /\ pc' = "decompress_loop"
    /\ UNCHANGED toolVars
    /\ UNCHANGED <<imgVars, convVars, encVars>>

\* one iteration of the loop of rle_decompress
DecompressStep ==
    /\ pc = "decompress_loop"
    /\ di < Len(compressed)
    /\ LET r == DecompressIter(compressed, di, decompressed)
       IN /\ di' = r.i
          /\ decompressed' = r.out
    /\ UNCHANGED toolVars
    /\ UNCHANGED <<pc, imgVars, convVars, encVars>>

\* the loop condition fails: return decompressed
DecompressReturn ==
    /\ pc = "decompress_loop"
    /\ di >= Len(compressed)
    /\ pc' = "decompressed"
    /\ UNCHANGED toolVars
    /\ UNCHANGED <<imgVars, convVars, encVars, decVars>>

-----------------------------------------------------------------------------
(* convert_to_lvgl_rgb565, stage by stage *)

\* if trim_borders: img = trim_black_borders(img); width, height = img.size
TrimStage ==
    /\ pc = "convert"
    /\ trimmed' = IF trim_borders THEN trim_black_borders(img, DefaultThreshold)
                  ELSE img
    /\ pc' = "pack"
    /\ UNCHANGED toolVars
    /\ UNCHANGED <<img, threshold, again, convVars, encVars, decVars>>

\* the packing loop, original_size = len(rgb565_data), is_compressed = False
PackStage ==
    /\ pc = "pack"
    /\ rgb565_data' = Pack(trimmed)
    /\ original_size' = Len(Pack(trimmed))
    /\ is_compressed' = FALSE
    /\ pc' = "rle"
    /\ UNCHANGED toolVars
    /\ UNCHANGED <<imgVars, trim_borders, use_rle, asset, encVars, decVars>>

\* CompressStage that keeps the compressed bytes on a tie (<= for <)
CompressStageKeepOnTie ==
    /\ pc = "rle"
    /\ LET compressed_data == rle_compress(rgb565_data)
       IN /\ IF use_rle /\ Len(compressed_data) <= original_size
             THEN rgb565_data' = compressed_data /\ is_compressed' = TRUE
             ELSE rgb565_data' = rgb565_data /\ is_compressed' = FALSE
          /\ IF use_rle
             THEN data' = rgb565_data /\ compressed' = compressed_data
             ELSE UNCHANGED <<data, compressed>>
    /\ pc' = "write"
    /\ UNCHANGED toolVars
    /\ UNCHANGED <<imgVars, trim_borders, use_rle, original_size, asset,
                   i, decVars>>

\* if use_rle: keep rle_compress(rgb565_data) only if it is shorter
CompressStage ==
    /\ pc = "rle"
    /\ LET compressed_data == rle_compress(rgb565_data)
       IN /\ IF use_rle /\ Len(compressed_data) < original_size
             THEN rgb565_data' = compressed_data /\ is_compressed' = TRUE
             ELSE rgb565_data' = rgb565_data /\ is_compressed' = FALSE
          /\ IF use_rle
             THEN data' = rgb565_data /\ compressed' = compressed_data
             ELSE UNCHANGED <<data, compressed>>
    /\ pc' = "write"
    /\ UNCHANGED toolVars
    /\ UNCHANGED <<imgVars, trim_borders, use_rle, original_size, asset,
                   i, decVars>>

\* with open(output_path, 'w') as f: the file is truncated
OpenOutput ==
    /\ pc = "write"
    /\ asset' = OpenedFile
    /\ pc' = "write_data"
    /\ UNCHANGED toolVars
    /\ UNCHANGED <<imgVars, trim_borders, use_rle, rgb565_data, original_size,
                   is_compressed, encVars, decVars>>

\* the data array: rgb565_data in rows of 16 bytes
WriteData ==
    /\ pc = "write_data"
    /\ asset' = [asset EXCEPT !.sections = @ \cup {"data"},
                              !.data = rgb565_data]
    /\ pc' = "write_defines"
    /\ UNCHANGED toolVars
    /\ UNCHANGED <<imgVars, trim_borders, use_rle, rgb565_data, original_size,
                   is_compressed, encVars, decVars>>

\* WriteDefines recording the length of the stored bytes as the uncompressed
\* size
WriteDefinesStoredLength ==
    /\ pc = "write_defines"
    /\ asset' = [asset EXCEPT
                    !.sections = @ \cup {"defines"},
                    !.has_uncompressed_size = is_compressed,
                    !.uncompressed_size = IF is_compressed
                                          THEN Len(rgb565_data) ELSE @,
                    !.is_compressed = IF is_compressed THEN 1 ELSE 0]
    /\ pc' = "write_descriptor"
    /\ UNCHANGED toolVars
    /\ UNCHANGED <<imgVars, trim_borders, use_rle, rgb565_data, original_size,
                   is_compressed, encVars, decVars>>

\* the defines: UNCOMPRESSED_SIZE only if is_compressed, then IS_COMPRESSED
WriteDefines ==
    /\ pc = "write_defines"
    /\ asset' = [asset EXCEPT
                    !.sections = @ \cup {"defines"},
                    !.has_uncompressed_size = is_compressed,
                    !.uncompressed_size = IF is_compressed THEN original_size
                                          ELSE @,
                    !.is_compressed = IF is_compressed THEN 1 ELSE 0]
    /\ pc' = "write_descriptor"
    /\ UNCHANGED toolVars
    /\ UNCHANGED <<imgVars, trim_borders, use_rle, rgb565_data, original_size,
                   is_compressed, encVars, decVars>>

\* the image descriptor, the end of the with block (close) and the return
WriteDescriptor ==
    /\ pc = "write_descriptor"
    /\ asset' = [asset EXCEPT !.sections = @ \cup {"descriptor"},
                              !.w = trimmed.w, !.h = trimmed.h,
                              !.data_size = Len(rgb565_data),
                              !.state = "closed"]
    /\ pc' = "done"
    /\ UNCHANGED toolVars
    /\ UNCHANGED <<imgVars, trim_borders, use_rle, rgb565_data, original_size,
                   is_compressed, encVars, decVars>>

\* Image.open or img.convert raises: except Exception, sys.exit(1)
LoadFails ==
    /\ pc = "convert"
    /\ pc' = "error"
    /\ UNCHANGED toolVars
    /\ UNCHANGED <<imgVars, convVars, encVars, decVars>>

\* open(output_path, 'w') raises: the file is not touched; sys.exit(1)
OpenOutputFails ==
    /\ pc = "write"
    /\ pc' = "error"
    /\ UNCHANGED toolVars
    /\ UNCHANGED <<imgVars, convVars, encVars, decVars>>

\* an f.write raises (the device is full, the file went away): what was
\* written stays in the file; sys.exit(1)
WriteFails ==
    /\ pc \in {"write_data", "write_defines", "write_descriptor"}
    /\ pc' = "error"
    /\ UNCHANGED toolVars
    /\ UNCHANGED <<imgVars, convVars, encVars, decVars>>

-----------------------------------------------------------------------------
(* trim_black_borders called on an image, and again on its result *)

Trim ==
    /\ pc = "trim"
    /\ trimmed' = trim_black_borders(img, threshold)
    /\ pc' = "trimmed"
    /\ UNCHANGED toolVars
    /\ UNCHANGED <<img, threshold, again, convVars, encVars, decVars>>

TrimAgain ==
    /\ pc = "trimmed"
    /\ again' = trim_black_borders(trimmed, threshold)
    /\ pc' = "trimmed_again"
    /\ UNCHANGED toolVars
    /\ UNCHANGED <<img, threshold, trimmed, convVars, encVars, decVars>>

-----------------------------------------------------------------------------
(* Specifications *)

\* the variables of the image functions, unused by the codec
NoImage ==
    /\ img = NoImg /\ threshold = 0 /\ trimmed = NoImg /\ again = NoImg
    /\ trim_borders = FALSE /\ use_rle = FALSE /\ rgb565_data = <<>>
    /\ original_size = 0 /\ is_compressed = FALSE /\ asset = NoFile

\* the variables of the test tool and of the side-by-side conversions
NoTools ==
    /\ stats = NoStats /\ analysis = NoAnalysis
    /\ convs = None /\ files = None
    /\ patch = NoPatch

\* the variables of the step-wise codec, unused by the image functions
NoCodec ==
    /\ data = <<>> /\ i = 0 /\ compressed = <<>>
    /\ di = 0 /\ decompressed = <<>>

-----------------------------------------------------------------------------
(* analyze_image_compression of test_rle_compression.py *)

\* the packing loop of analyze_image_compression: low byte, then high byte
analysis_rgb565(im) ==
    [k \in 1..(2 * im.w * im.h) |->
        LET n == (k - 1) \div 2
            p == Pixel(im, n % im.w, n \div im.w)
            rgb565 == BitOr(BitOr(Shl(Shr(p[1], 3), 11), Shl(Shr(p[2], 2), 5)),
                            Shr(p[3], 3))
        IN IF k % 2 = 1 THEN BitAnd(rgb565, 255)
           ELSE BitAnd(Shr(rgb565, 8), 255)]

\* one iteration of the statistics loop: a byte 0xFF counts as a run and
\* advances 3, any other byte counts as a literal and advances 1
StatsIter(c, st) ==
    IF c[st.i + 1] = MARKER
    THEN [i |-> st.i + 3, runs |-> st.runs + 1, literals |-> st.literals]
    ELSE [i |-> st.i + 1, runs |-> st.runs, literals |-> st.literals + 1]

\* the image is packed into rgb565_data and handed to rle_compress
AnalyzePack ==
    /\ pc = "analyze"
    /\ data' = analysis_rgb565(img)
    /\ pc' = "rle_compress"
    /\ UNCHANGED toolVars
    /\ UNCHANGED <<imgVars, convVars, i, compressed, decVars>>

\* if decompressed != rgb565_data: print the error and return; otherwise go
\* on to the statistics with runs = 0, literals = 0, i = 0
AnalyzeVerify ==
    /\ pc = "decompressed"
    /\ IF decompressed # data
       THEN pc' = "analyze_failed" /\ UNCHANGED stats
       ELSE pc' = "stats_loop" /\ stats' = NoStats
    /\ UNCHANGED <<analysis, convs, files, patch>>
    /\ UNCHANGED <<imgVars, convVars, encVars, decVars>>

\* one iteration of the statistics loop
StatsStep ==
    /\ pc = "stats_loop"
    /\ stats.i < Len(compressed)
    /\ stats' = StatsIter(compressed, stats)
    /\ UNCHANGED <<analysis, convs, files, patch>>
    /\ UNCHANGED <<pc, imgVars, convVars, encVars, decVars>>

\* the loop condition fails: the statistics are printed, the sizes returned
StatsReturn ==
    /\ pc = "stats_loop"
    /\ stats.i >= Len(compressed)
    /\ pc' = "analyzed"
    /\ UNCHANGED toolVars
    /\ UNCHANGED <<imgVars, convVars, encVars, decVars>>

-----------------------------------------------------------------------------

-----------------------------------------------------------------------------
(* analyze_trimmed_logo of test_rle_compression.py *)

\* trimmed_logo_crop with threshold = 11
trimmed_logo_crop_threshold_11(im) ==
    LET thr == 11
        bright(x, y) ==
            LET p == Pixel(im, x, y)
            IN p[1] > thr \/ p[2] > thr \/ p[3] > thr
        rows == {y \in 0..(im.h - 1) : \E x \in 0..(im.w - 1) : bright(x, y)}
        cols == {x \in 0..(im.w - 1) : \E y \in 0..(im.h - 1) : bright(x, y)}
        top == IF rows = {} THEN 0
               ELSE CHOOSE y \in rows : \A z \in rows : y <= z
        bottom == IF rows = {} THEN im.h - 1
                  ELSE CHOOSE y \in rows : \A z \in rows : y >= z
        left == IF cols = {} THEN 0
                ELSE CHOOSE x \in cols : \A z \in cols : x <= z
        right == IF cols = {} THEN im.w - 1
                 ELSE CHOOSE x \in cols : \A z \in cols : x >= z
    IN IF left < right /\ top < bottom
       THEN Crop(im, left, top, right + 1, bottom + 1)
       ELSE im

\* threshold = 10; the four scans: top and left are the first row and column
\* with a pixel above the threshold (0 if none), bottom and right the last
\* ones (height - 1 and width - 1 if none); then the crop under the guard
trimmed_logo_crop(im) ==
    LET thr == 10
        bright(x, y) ==
            LET p == Pixel(im, x, y)
            IN p[1] > thr \/ p[2] > thr \/ p[3] > thr
        rows == {y \in 0..(im.h - 1) : \E x \in 0..(im.w - 1) : bright(x, y)}
        cols == {x \in 0..(im.w - 1) : \E y \in 0..(im.h - 1) : bright(x, y)}
        top == IF rows = {} THEN 0
               ELSE CHOOSE y \in rows : \A z \in rows : y <= z
        bottom == IF rows = {} THEN im.h - 1
                  ELSE CHOOSE y \in rows : \A z \in rows : y >= z
        left == IF cols = {} THEN 0
                ELSE CHOOSE x \in cols : \A z \in cols : x <= z
        right == IF cols = {} THEN im.w - 1
                 ELSE CHOOSE x \in cols : \A z \in cols : x >= z
    IN IF left < right /\ top < bottom
       THEN Crop(im, left, top, right + 1, bottom + 1)
       ELSE im

\* the packing loop of analyze_trimmed_logo
trimmed_logo_rgb565(im) ==
    [k \in 1..(2 * im.w * im.h) |->
        LET n == (k - 1) \div 2
            p == Pixel(im, n % im.w, n \div im.w)
            rgb565 == BitOr(BitOr(Shl(Shr(p[1], 3), 11), Shl(Shr(p[2], 2), 5)),
                            Shr(p[3], 3))
        IN IF k % 2 = 1 THEN BitAnd(rgb565, 255)
           ELSE BitAnd(Shr(rgb565, 8), 255)]

\* rle_compress of test_rle_compression.py, the while loop from read index p
\* with output out
RECURSIVE test_rle_compress_loop(_, _, _)
test_rle_compress_loop(d, p, out) ==
    IF p >= Len(d) THEN out
    ELSE LET byte_val == d[p + 1]
             more(c) == p + c < Len(d) /\ d[p + c + 1] = byte_val /\ c < 255
             count == CHOOSE c \in 1..255 :
                          ~more(c) /\ \A k \in 1..(c - 1) : more(k)
             literal(j) == IF d[p + j] = 255 THEN <<255, 0>> ELSE <<d[p + j]>>
             literals(n) ==
                 IF n = 1 THEN literal(1)
                 ELSE IF n = 2 THEN literal(1) \o literal(2)
                 ELSE literal(1) \o literal(2) \o literal(3)
         IN IF count >= 4
            THEN test_rle_compress_loop(d, p + count,
                                        out \o <<255, count, byte_val>>)
            ELSE test_rle_compress_loop(d, p + count, out \o literals(count))

\* rle_compress of test_rle_compression.py
test_rle_compress(d) ==
    IF d = <<>> THEN <<>> ELSE test_rle_compress_loop(d, 0, <<>>)

\* the logo is loaded and trimmed
LogoTrim ==
    /\ pc = "done"
    /\ analysis.pc = "idle"
    /\ analysis' = [analysis EXCEPT !.pc = "pack",
                                    !.img = trimmed_logo_crop(img)]
    /\ UNCHANGED <<stats, convs, files, patch>>
    /\ UNCHANGED <<pc, imgVars, convVars, encVars, decVars>>

\* the trimmed logo is packed
LogoPack ==
    /\ analysis.pc = "pack"
    /\ analysis' = [analysis EXCEPT
                       !.pc = "compress",
                       !.rgb565_data = trimmed_logo_rgb565(analysis.img),
                       !.original = Len(trimmed_logo_rgb565(analysis.img))]
    /\ UNCHANGED <<stats, convs, files, patch>>
    /\ UNCHANGED <<pc, imgVars, convVars, encVars, decVars>>

\* compressed = rle_compress(rgb565_data)
LogoCompress ==
    /\ analysis.pc = "compress"
    /\ LET c == test_rle_compress(analysis.rgb565_data)
       IN analysis' = [analysis EXCEPT !.pc = "verify",
                                       !.compressed = c,
                                       !.compressed_size = Len(c)]
    /\ UNCHANGED <<stats, convs, files, patch>>
    /\ UNCHANGED <<pc, imgVars, convVars, encVars, decVars>>

\* decompressed = rle_decompress(compressed); return None if it differs from
\* rgb565_data, the sizes otherwise
LogoVerify ==
    /\ analysis.pc = "verify"
    /\ LET d == rle_decompress(analysis.compressed)
       IN analysis' = [analysis EXCEPT
                          !.pc = "returned",
                          !.decompressed = d,
                          !.returned = IF d # analysis.rgb565_data
                                       THEN "None" ELSE "sizes"]
    /\ UNCHANGED <<stats, convs, files, patch>>
    /\ UNCHANGED <<pc, imgVars, convVars, encVars, decVars>>

-----------------------------------------------------------------------------
(* convert_logo.py and convert_logo_no_swap.py run side by side: convs[t] *)
(* holds the local variables of tool t, files[path] the header at path     *)

\* no_swap_rgb565 with the green/blue swap: blue in the 6-bit middle field,
\* green in the 5-bit low field
no_swap_rgb565_swapped(p) ==
    BitOr(BitOr(Shl(Shr(p[1], 3), 11), Shl(Shr(p[3], 2), 5)), Shr(p[2], 3))

\* convert_logo_no_swap.py: ((r >> 3) << 11) | ((g >> 2) << 5) | (b >> 3)
no_swap_rgb565(p) ==
    BitOr(BitOr(Shl(Shr(p[1], 3), 11), Shl(Shr(p[2], 2), 5)), Shr(p[3], 3))

\* the packing loop of convert_to_lvgl_rgb565_no_swap: low byte, high byte
no_swap_pack(im) ==
    [k \in 1..(2 * im.w * im.h) |->
        LET n == (k - 1) \div 2
            rgb565 == no_swap_rgb565(Pixel(im, n % im.w, n \div im.w))
        IN IF k % 2 = 1 THEN BitAnd(rgb565, 255)
           ELSE BitAnd(Shr(rgb565, 8), 255)]

\* output_header that is the default path whatever --output says
output_header_default(t) == DefaultOutput

\* output_header = args.output or the default path
output_header(t) == convs[t].output

\* the position of tool t
At(t, p) == convs[t].pc = p

\* tool t goes to position p with its local variables changed as in upd
Goes(t, upd) == convs' = [convs EXCEPT ![t] = upd]

\* the variables of the single-run model, unused here
ParUnchanged ==
    /\ UNCHANGED <<stats, analysis, patch>>
    /\ UNCHANGED <<pc, imgVars, convVars, encVars, decVars>>

\* convert_logo.py: the image is loaded and trimmed if trim_borders
ParTrim ==
    LET t == "convert_logo" c == convs[t]
    IN /\ At(t, "convert")
       /\ Goes(t, [c EXCEPT !.pc = "pack",
                            !.cur = IF c.trim_borders
                                    THEN trim_black_borders(c.img, DefaultThreshold)
                                    ELSE c.img])
       /\ UNCHANGED files
       /\ ParUnchanged

\* convert_logo.py: the packing loop
ParPack ==
    LET t == "convert_logo" c == convs[t]
    IN /\ At(t, "pack")
       /\ Goes(t, [c EXCEPT !.pc = "rle",
                            !.rgb565_data = Pack(c.cur),
                            !.original_size = Len(Pack(c.cur)),
                            !.is_compressed = FALSE])
       /\ UNCHANGED files
       /\ ParUnchanged

\* convert_logo.py: the compression selection
ParCompress ==
    LET t == "convert_logo" c == convs[t]
        compressed_data == rle_compress(c.rgb565_data)
        keep == c.use_rle /\ Len(compressed_data) < c.original_size
    IN /\ At(t, "rle")
       /\ Goes(t, [c EXCEPT !.pc = "write",
                            !.rgb565_data = IF keep THEN compressed_data ELSE @,
                            !.is_compressed = keep])
       /\ UNCHANGED files
       /\ ParUnchanged

\* convert_logo.py: open(output_path, 'w') truncates the file; the comment
\* block with the format (0: RGB565), the size and the compression note
ParOpen ==
    LET t == "convert_logo" c == convs[t]
    IN /\ At(t, "write")
       /\ Goes(t, [c EXCEPT !.pc = "write_data"])
       /\ files' = [files EXCEPT ![output_header(t)] =
                      [EmptyFile EXCEPT !.preamble =
                          <<0, c.cur.w, c.cur.h,
                            IF c.is_compressed THEN 1 ELSE 0>>]]
       /\ ParUnchanged

\* convert_logo.py: the data array
ParWriteData ==
    LET t == "convert_logo" c == convs[t]
    IN /\ At(t, "write_data")
       /\ Goes(t, [c EXCEPT !.pc = "write_defines"])
       /\ files' = [files EXCEPT ![output_header(t)].data = c.rgb565_data]
       /\ ParUnchanged

\* convert_logo.py: UNCOMPRESSED_SIZE and IS_COMPRESSED (1), or IS_COMPRESSED (0)
ParWriteDefines ==
    LET t == "convert_logo" c == convs[t]
    IN /\ At(t, "write_defines")
       /\ Goes(t, [c EXCEPT !.pc = "write_descriptor"])
       /\ files' = [files EXCEPT ![output_header(t)].defines =
                      IF c.is_compressed THEN <<c.original_size, 1>>
                      ELSE <<0>>]
       /\ ParUnchanged

\* convert_logo.py: the descriptor with .w, .h and .data_size; close; return
ParWriteDescriptor ==
    LET t == "convert_logo" c == convs[t]
    IN /\ At(t, "write_descriptor")
       /\ Goes(t, [c EXCEPT !.pc = "done"])
       /\ files' = [files EXCEPT ![output_header(t)].descriptor =
                      <<c.cur.w, c.cur.h, Len(c.rgb565_data)>>]
       /\ ParUnchanged

\* convert_logo_no_swap.py: the image is loaded and packed; no trimming
NoSwapPack ==
    LET t == "convert_logo_no_swap" c == convs[t]
    IN /\ At(t, "convert")
       /\ Goes(t, [c EXCEPT !.pc = "write",
                            !.cur = c.img,
                            !.rgb565_data = no_swap_pack(c.img)])
       /\ UNCHANGED files
       /\ ParUnchanged

\* convert_logo_no_swap.py: open(output_path, 'w') truncates the file; the
\* comment block with the format (1: RGB565 (NO G/B SWAP)) and the size
NoSwapOpen ==
    LET t == "convert_logo_no_swap" c == convs[t]
    IN /\ At(t, "write")
       /\ Goes(t, [c EXCEPT !.pc = "write_data"])
       /\ files' = [files EXCEPT ![output_header(t)] =
                      [EmptyFile EXCEPT !.preamble =
                          <<1, c.cur.w, c.cur.h, 0>>]]
       /\ ParUnchanged

\* convert_logo_no_swap.py: the data array
NoSwapWriteData ==
    LET t == "convert_logo_no_swap" c == convs[t]
    IN /\ At(t, "write_data")
       /\ Goes(t, [c EXCEPT !.pc = "write_descriptor"])
       /\ files' = [files EXCEPT ![output_header(t)].data = c.rgb565_data]
       /\ ParUnchanged

\* convert_logo_no_swap.py: the descriptor; close; return
NoSwapWriteDescriptor ==
    LET t == "convert_logo_no_swap" c == convs[t]
    IN /\ At(t, "write_descriptor")
       /\ Goes(t, [c EXCEPT !.pc = "done"])
       /\ files' = [files EXCEPT ![output_header(t)].descriptor =
                      <<c.cur.w, c.cur.h, Len(c.rgb565_data)>>]
       /\ ParUnchanged

InitRLE ==
    /\ NoImage
    /\ NoTools
    /\ pc = "rle_compress"
    /\ IsInput(data)
    /\ i = 0 /\ compressed = <<>> /\ di = 0 /\ decompressed = <<>>

NextRLE ==
    \/ CompressEnter
    \/ CompressStep
    \/ CompressReturn
    \/ DecompressEnter
    \/ DecompressStep
    \/ DecompressReturn

SpecRLE == InitRLE /\ [][NextRLE]_vars

InitDecode ==
    /\ NoImage
    /\ NoTools
    /\ pc = "compressed"
    /\ data = <<>> /\ i = 0
    /\ IsSeqUpTo(compressed, StreamBytes, MaxStream)
    /\ di = 0 /\ decompressed = <<>>

NextDecode ==
    \/ DecompressEnter
    \/ DecompressStep
    \/ DecompressReturn

SpecDecode == InitDecode /\ [][NextDecode]_vars

\* analyze_image_compression called on an image file
InitAnalyze ==
    /\ NoTools
    /\ pc = "analyze"
    /\ IsImageUpTo(img, MaxPixels, Palette)
    /\ threshold = 0 /\ trimmed = NoImg /\ again = NoImg
    /\ trim_borders = FALSE /\ use_rle = FALSE
    /\ rgb565_data = <<>> /\ original_size = 0 /\ is_compressed = FALSE
    /\ asset = NoFile
    /\ data = <<>> /\ i = 0 /\ compressed = <<>>
    /\ di = 0 /\ decompressed = <<>>

NextAnalyze ==
    \/ AnalyzePack
    \/ NextRLE
    \/ AnalyzeVerify
    \/ StatsStep
    \/ StatsReturn

SpecAnalyze == InitAnalyze /\ [][NextAnalyze]_vars


\* one conversion: convert_to_lvgl_rgb565(input, output, trim_borders, use_rle)
Init ==
    /\ NoCodec
    /\ pc = "convert"
    /\ IsImageUpTo(img, MaxPixels, Palette)
    /\ threshold = DefaultThreshold
    /\ trimmed = NoImg /\ again = NoImg
    /\ trim_borders \in BOOLEAN
    /\ use_rle \in BOOLEAN
    /\ rgb565_data = <<>> /\ original_size = 0 /\ is_compressed = FALSE
    /\ asset = NoFile
    /\ NoTools

Next ==
    \/ TrimStage
    \/ PackStage
    \/ CompressStage
    \/ OpenOutput
    \/ WriteData
    \/ WriteDefines
    \/ WriteDescriptor
    \/ LoadFails
    \/ OpenOutputFails
    \/ WriteFails

Spec == Init /\ [][Next]_vars

\* convert_to_lvgl_rgb565 called on an image file of width 0 or height 0
InitZero ==
    /\ NoCodec
    /\ pc = "convert"
    /\ IsEmptyImage(img, ZeroMaxSide)
    /\ threshold = DefaultThreshold
    /\ trimmed = NoImg /\ again = NoImg
    /\ trim_borders \in BOOLEAN
    /\ use_rle \in BOOLEAN
    /\ rgb565_data = <<>> /\ original_size = 0 /\ is_compressed = FALSE
    /\ asset = NoFile
    /\ NoTools

SpecZero == InitZero /\ [][Next]_vars

\* every program of the tools: rle_compress followed by rle_decompress on any
\* input, rle_decompress on any stream, and convert_to_lvgl_rgb565 on any
\* image. The codec functions are sequential loops that take their next
\* step (one that changes the position or a read index) as long as they
\* have one.
InitTerm ==
    \/ InitRLE
    \/ InitDecode
    \/ /\ NoCodec
       /\ pc = "convert"
       /\ IsImageUpTo(img, MaxPixels, TrimPalette)
       /\ threshold = DefaultThreshold
       /\ trimmed = NoImg /\ again = NoImg
       /\ trim_borders \in BOOLEAN
       /\ use_rle \in BOOLEAN
       /\ rgb565_data = <<>> /\ original_size = 0 /\ is_compressed = FALSE
       /\ asset = NoFile
       /\ NoTools

NextTerm ==
    \/ NextRLE
    \/ Next

SpecTerm == InitTerm /\ [][NextTerm]_vars /\ WF_<<pc, i, di>>(NextRLE)

\* the converter with trimming and RLE on the logo, then analyze_trimmed_logo
\* on the same logo
InitLogo ==
    /\ NoCodec
    /\ pc = "convert"
    /\ IsImageUpTo(img, LogoMaxPixels, LogoPalette)
    /\ threshold = DefaultThreshold
    /\ trimmed = NoImg /\ again = NoImg
    /\ trim_borders = TRUE
    /\ use_rle = TRUE
    /\ rgb565_data = <<>> /\ original_size = 0 /\ is_compressed = FALSE
    /\ asset = NoFile
    /\ NoTools

NextLogo ==
    \/ Next
    \/ LogoTrim
    \/ LogoPack
    \/ LogoCompress
    \/ LogoVerify

SpecLogo == InitLogo /\ [][NextLogo]_vars

\* convert_logo.py with any --input, --rle, --no-trim and --output, and
\* convert_logo_no_swap.py, which always writes the default path, started
\* together. Failing reads and writes are left to Spec.
InitPar ==
    /\ NoImage
    /\ NoCodec
    /\ pc = "side by side"
    /\ trim_borders = FALSE /\ use_rle = FALSE
    /\ rgb565_data = <<>> /\ original_size = 0 /\ is_compressed = FALSE
    /\ asset = NoFile
    /\ stats = NoStats /\ analysis = NoAnalysis
    /\ patch = NoPatch
    /\ \E a, b \in [w : 1..ParMaxPixels, h : 1..ParMaxPixels] :
          /\ a.w * a.h <= ParMaxPixels
          /\ b.w * b.h <= ParMaxPixels
          /\ \E pa \in [1..(a.w * a.h) -> ParPalette],
                pb \in [1..(b.w * b.h) -> ParPalette],
                trim \in BOOLEAN, rle \in BOOLEAN, out \in Paths :
                convs = [t \in Tools |->
                    IF t = "convert_logo"
                    THEN [pc |-> "convert",
                          img |-> [w |-> a.w, h |-> a.h, px |-> pa],
                          trim_borders |-> trim, use_rle |-> rle,
                          output |-> out, cur |-> NoImg,
                          rgb565_data |-> <<>>, original_size |-> 0,
                          is_compressed |-> FALSE]
                    ELSE [pc |-> "convert",
                          img |-> [w |-> b.w, h |-> b.h, px |-> pb],
                          trim_borders |-> FALSE, use_rle |-> FALSE,
                          output |-> DefaultOutput, cur |-> NoImg,
                          rgb565_data |-> <<>>, original_size |-> 0,
                          is_compressed |-> FALSE]]
    /\ files = [f \in Paths |-> EmptyFile]

NextPar ==
    \/ ParTrim
    \/ ParPack
    \/ ParCompress
    \/ ParOpen
    \/ ParWriteData
    \/ ParWriteDefines
    \/ ParWriteDescriptor
    \/ NoSwapPack
    \/ NoSwapOpen
    \/ NoSwapWriteData
    \/ NoSwapWriteDescriptor

SpecPar == InitPar /\ [][NextPar]_vars

InitTrim ==
    /\ NoCodec
    /\ pc = "trim"
    /\ IsImage(img, TrimMaxW, TrimMaxH, TrimPalette)
    /\ threshold \in Thresholds
    /\ trimmed = NoImg /\ again = NoImg
    /\ trim_borders = TRUE /\ use_rle = FALSE
    /\ rgb565_data = <<>> /\ original_size = 0 /\ is_compressed = FALSE
    /\ asset = NoFile
    /\ NoTools

NextTrim ==
    \/ Trim
    \/ TrimAgain

SpecTrim == InitTrim /\ [][NextTrim]_vars

-----------------------------------------------------------------------------
(* scripts/patch_memory_layout.py *)

\* the longest memory_layout_utils.c, in pieces of text
PatchMaxLen == 4

\* the number of times the script is run on the same file
MaxPatchRuns == 3

\* A text is a sequence of pieces. The pieces the script tells apart:
\* the memcpy of the reserved regions with the #endif and the empty line
\* after it
memcpy_endif == "memcpy(reserved, ...);#endif"
\* the comment in front of the qsort call
sort_comment == "/* Sort by starting address */"
\* the loop that drops the regions with start == end, from its comment
\* "Filter out zero-length regions before sorting" to "count = valid_count;"
filter_block == "/* Filter out zero-length regions ... */ ... count = valid_count;"
\* some other text with the words "Filter out zero-length regions" in it
marker_comment == "... Filter out zero-length regions ..."
\* any other text
other_text == "..."

\* the text the script looks for, and the text it puts in its place
insertion_point == <<memcpy_endif, sort_comment>>
patch_code == <<memcpy_endif, filter_block, sort_comment>>

\* the pieces that hold the words "Filter out zero-length regions"
marker_text == {filter_block, marker_comment}

\* the pieces memory_layout_utils.c is made of
PatchText ==
    {memcpy_endif, sort_comment, filter_block, marker_comment, other_text}

\* sub starts at position k of s
Occurs(sub, s, k) ==
    /\ k + Len(sub) - 1 <= Len(s)
    /\ \A j \in 1..Len(sub) : s[k + j - 1] = sub[j]

\* sub in s
Contains(sub, s) == \E k \in 1..Len(s) : Occurs(sub, s, k)

\* "Filter out zero-length regions" in s
ContainsMarker(s) == \E k \in 1..Len(s) : s[k] \in marker_text

RECURSIVE ReplaceFrom(_, _, _, _)
\* str.replace from position k on: every occurrence, left to right, none
\* overlapping another
ReplaceFrom(s, old, new, k) ==
    IF k > Len(s) THEN <<>>
    ELSE IF Occurs(old, s, k)
         THEN new \o ReplaceFrom(s, old, new, k + Len(old))
         ELSE <<s[k]>> \o ReplaceFrom(s, old, new, k + 1)

\* a replace that stops after the first occurrence
str_replace_first(s, old, new) ==
    IF ~Contains(old, s) THEN s
    ELSE LET k == CHOOSE p \in 1..Len(s) :
                      /\ Occurs(old, s, p)
                      /\ \A q \in 1..(p - 1) : ~Occurs(old, s, q)
         IN  SubSeq(s, 1, k - 1) \o new \o SubSeq(s, k + Len(old), Len(s))

\* content.replace(insertion_point, patch_code)
str_replace(s, old, new) == ReplaceFrom(s, old, new, 1)

\* the function returns: one more run is over
PatchReturns(p) == [p EXCEPT !.runs = @ + 1]

\* the file is not there: a warning, nothing else
PatchNotFound ==
    /\ pc = "patch_memory_layout_utils"
    /\ ~patch.exists
    /\ patch' = PatchReturns(patch)
    /\ pc' = "returned"
    /\ UNCHANGED <<imgVars, convVars, encVars, decVars, stats, analysis, convs, files>>

\* content = f.read()
PatchRead ==
    /\ pc = "patch_memory_layout_utils"
    /\ patch.exists
    /\ patch' = [patch EXCEPT !.content = patch.file]
    /\ pc' = "read"
    /\ UNCHANGED <<imgVars, convVars, encVars, decVars, stats, analysis, convs, files>>

\* the marker words are in the content: "File already patched"
PatchAlreadyPatched ==
    /\ pc = "read"
    /\ ContainsMarker(patch.content)
    /\ patch' = PatchReturns(patch)
    /\ pc' = "returned"
    /\ UNCHANGED <<imgVars, convVars, encVars, decVars, stats, analysis, convs, files>>

\* the insertion point is in the content: every occurrence is replaced and
\* the file is written
PatchApply ==
    /\ pc = "read"
    /\ ~ContainsMarker(patch.content)
    /\ Contains(insertion_point, patch.content)
    /\ LET content == str_replace(patch.content, insertion_point, patch_code)
       IN  patch' = PatchReturns([patch EXCEPT !.content = content,
                                               !.file = content,
                                               !.writes = @ + 1])
    /\ pc' = "returned"
    /\ UNCHANGED <<imgVars, convVars, encVars, decVars, stats, analysis, convs, files>>

\* no insertion point: "Could not find insertion point", nothing written
PatchNoInsertionPoint ==
    /\ pc = "read"
    /\ ~ContainsMarker(patch.content)
    /\ ~Contains(insertion_point, patch.content)
    /\ patch' = PatchReturns(patch)
    /\ pc' = "returned"
    /\ UNCHANGED <<imgVars, convVars, encVars, decVars, stats, analysis, convs, files>>

\* the script is run once more
PatchRunAgain ==
    /\ pc = "returned"
    /\ patch.runs < MaxPatchRuns
    /\ pc' = "patch_memory_layout_utils"
    /\ UNCHANGED <<imgVars, convVars, encVars, decVars, toolVars>>

\* the script is started on a missing file or on any text, patched before,
\* patched by hand, or not at all
InitPatch ==
    /\ NoImage
    /\ NoCodec
    /\ stats = NoStats /\ analysis = NoAnalysis
    /\ convs = None /\ files = None
    /\ pc = "patch_memory_layout_utils"
    /\ \/ patch = NoPatch
       \/ \E n \in 0..PatchMaxLen :
             \E text \in [1..n -> PatchText] :
                patch = [NoPatch EXCEPT !.exists = TRUE, !.file = text,
                                        !.original = text]

NextPatch ==
    \/ PatchNotFound
    \/ PatchRead
    \/ PatchAlreadyPatched
    \/ PatchApply
    \/ PatchNoInsertionPoint
    \/ PatchRunAgain

SpecPatch == InitPatch /\ [][NextPatch]_vars

-----------------------------------------------------------------------------
\* C1: decompressing what rle_compress produced gives back the input, byte
\* for byte, for every input (empty, with markers, with runs above 255).
RoundTrip ==
    pc = "decompressed" => decompressed = data

\* a run of more than 255 equal bytes and a literal marker followed by 0x00
\* both went through compress and decompress
RoundTripWitness ==
    /\ pc = "decompressed"
    /\ Len(data) > 600
    /\ \E k \in 1..(Len(data) - 1) : data[k] = MARKER /\ data[k + 1] = 0
    /\ decompressed = data

-----------------------------------------------------------------------------
(* Reference definitions used to state the codec properties *)

Min(a, b) == IF a < b THEN a ELSE b

\* length of the run of bytes equal to d[p] that starts at index p, capped at 255
RunAt(d, p) ==
    CHOOSE c \in 1..Min(MaxRun, Len(d) - p) :
        /\ \A k \in 1..c : d[p + k] = d[p + 1]
        /\ \/ c = MaxRun
           \/ p + c = Len(d)
           \/ d[p + c + 1] # d[p + 1]

\* one byte written literally: the marker as marker, 0x00; any other byte as is
Escaped(b) == IF b = MARKER THEN <<MARKER, 0>> ELSE <<b>>

RECURSIVE Concat(_)
Concat(ss) == IF ss = <<>> THEN <<>> ELSE Head(ss) \o Concat(Tail(ss))

RECURSIVE Sum(_)
Sum(ns) == IF ns = <<>> THEN 0 ELSE Head(ns) + Sum(Tail(ns))

\* the encoder as specified: a run of 4 or more becomes a token and the
\* position moves past the run; otherwise ONE literal is written and the
\* position moves by one byte
RECURSIVE EncodeOneAtATime(_, _)
EncodeOneAtATime(d, p) ==
    IF p >= Len(d) THEN <<>>
    ELSE LET c == RunAt(d, p)
         IN IF c >= 4
            THEN <<MARKER, c, d[p + 1]>> \o EncodeOneAtATime(d, p + c)
            ELSE Escaped(d[p + 1]) \o EncodeOneAtATime(d, p + 1)

\* the counts of the run tokens of stream c, walked on its token boundaries
\* from index p; a marker cut off by the end of the stream counts as 0
RECURSIVE TokenCounts(_, _)
TokenCounts(c, p) ==
    IF p >= Len(c) THEN <<>>
    ELSE IF c[p + 1] # MARKER THEN TokenCounts(c, p + 1)
    ELSE IF p + 1 < Len(c) /\ c[p + 2] = 0 THEN TokenCounts(c, p + 2)
    ELSE IF p + 2 < Len(c) THEN <<c[p + 2]>> \o TokenCounts(c, p + 3)
    ELSE <<0>>

\* the bytes the current step appended to compressed
Appended == SubSeq(compressed', Len(compressed) + 1, Len(compressed'))

\* a step of the compress loop
IsCompressStep == pc = "compress_loop" /\ i < Len(data) /\ i' # i

\* a step of the decompress loop
IsDecompressStep == pc = "decompress_loop" /\ di < Len(compressed) /\ di' # di

\* data is n >= 1 copies of one byte
OneRun(n) == Len(data) = n /\ n >= 1 /\ \A k \in 1..n : data[k] = data[1]

-----------------------------------------------------------------------------
\* C4: rle_compress gives, for every input, the output of the specified
\* one-pass algorithm (token for a run of 4 or more, otherwise one literal
\* and advance by one byte), and 10 10 10 10 10 20 encodes to FF 05 10 20.
CompressMatchesSpecified ==
    pc = "compressed" =>
        /\ compressed = EncodeOneAtATime(data, 0)
        /\ data = <<16, 16, 16, 16, 16, 32>> => compressed = <<255, 5, 16, 32>>

\* the example input was compressed, and so was an input whose literal path
\* wrote a run of three bytes in one iteration
CompressMatchesSpecifiedWitness ==
    /\ pc = "compressed"
    /\ data = <<16, 16, 16, 16, 16, 32>>
    /\ compressed = <<255, 5, 16, 32>>

-----------------------------------------------------------------------------
\* C5 as stated: every step of rle_decompress follows one of three rules,
\* also when the last marker is followed by fewer than two bytes: a byte
\* other than 0xFF is copied and the index advances 1; 0xFF 0x00 gives one
\* 0xFF and advances 2; 0xFF and any other byte gives count copies of value
\* and advances 3.
DecodeThreeRules ==
    [][IsDecompressStep =>
        LET b == compressed[di + 1]
        IN IF b # MARKER
           THEN di' = di + 1 /\ decompressed' = Append(decompressed, b)
           ELSE IF di + 1 < Len(compressed) /\ compressed[di + 2] = 0
           THEN di' = di + 2 /\ decompressed' = Append(decompressed, MARKER)
           ELSE /\ di' = di + 3
                /\ di + 3 <= Len(compressed)
                /\ decompressed' = decompressed \o
                       Repeat(compressed[di + 3], compressed[di + 2])
    ]_vars

\* C5 amended: the three rules hold wherever the marker is followed by 0x00
\* or by at least two bytes; a marker followed by fewer than two bytes (and
\* not by 0x00) is copied as a literal 0xFF and the index advances 1.
DecodeRules ==
    [][IsDecompressStep =>
        LET b == compressed[di + 1]
        IN IF b # MARKER
           THEN di' = di + 1 /\ decompressed' = Append(decompressed, b)
           ELSE IF di + 1 < Len(compressed) /\ compressed[di + 2] = 0
           THEN di' = di + 2 /\ decompressed' = Append(decompressed, MARKER)
           ELSE IF di + 3 <= Len(compressed)
           THEN /\ di' = di + 3
                /\ decompressed' = decompressed \o
                       Repeat(compressed[di + 3], compressed[di + 2])
           ELSE di' = di + 1 /\ decompressed' = Append(decompressed, MARKER)
    ]_vars

\* a stream with a run token and a marker cut off by the end was decoded
DecodeRulesWitness ==
    /\ pc = "decompressed"
    /\ compressed = <<255, 3, 16, 255>>
    /\ decompressed = <<16, 16, 16, 255>>

-----------------------------------------------------------------------------
\* C6 as stated: every run token of an output of rle_compress has a count
\* in 1..255, and an input run of more than 255 equal bytes is split into
\* several tokens; 600 equal bytes give several tokens whose counts sum to 600.
RunCapSeveralTokens ==
    pc = "compressed" =>
        LET counts == TokenCounts(compressed, 0)
        IN /\ \A k \in 1..Len(counts) : counts[k] \in 1..MaxRun
           /\ (OneRun(Len(data)) /\ Len(data) > MaxRun) => Len(counts) >= 2
           /\ OneRun(600) => Sum(counts) = 600

\* C6 amended: every run token of an output of rle_compress has a count in
\* 1..255; an input of n > 255 equal bytes is split into n div 255 tokens of
\* count 255 followed by the rest, which is one more token when 4 or more
\* bytes remain and 1 to 3 literals otherwise (so 256 equal bytes give ONE
\* token and one literal); 600 equal bytes give several tokens, counts
\* summing to 600.
RunCap ==
    pc = "compressed" =>
        LET counts == TokenCounts(compressed, 0)
            n == Len(data)
            q == n \div MaxRun
            r == n % MaxRun
        IN /\ \A k \in 1..Len(counts) : counts[k] \in 1..MaxRun
           /\ (OneRun(n) /\ n > MaxRun) =>
                 compressed =
                     Concat([k \in 1..q |-> <<MARKER, MaxRun, data[1]>>]) \o
                     (IF r >= 4 THEN <<MARKER, r, data[1]>>
                      ELSE Concat([k \in 1..r |-> Escaped(data[1])]))
           /\ OneRun(600) => Len(counts) >= 2 /\ Sum(counts) = 600

\* 600 equal bytes were compressed into the tokens 255, 255, 90
RunCapWitness ==
    /\ pc = "compressed"
    /\ OneRun(600)
    /\ TokenCounts(compressed, 0) = <<255, 255, 90>>

-----------------------------------------------------------------------------
\* C7: on the literal path (run of 1 to 3) every 0xFF is written as 0xFF
\* 0x00 and every other byte as itself; a run of 4 or more 0xFF is written
\* as one run token; FF encodes to FF 00 and FF FF FF FF to FF 04 FF.
EscapeCorrect ==
    /\ [](pc = "compressed" =>
            /\ data = <<255>> => compressed = <<255, 0>>
            /\ data = <<255, 255, 255, 255>> => compressed = <<255, 4, 255>>)
    /\ [][IsCompressStep =>
            LET b == data[i + 1]
                c == RunAt(data, i)
            IN IF c >= 4
               THEN Appended = <<MARKER, c, b>>
               ELSE IF b = MARKER
               THEN Appended = Concat([k \in 1..c |-> <<MARKER, 0>>])
               ELSE Appended = [k \in 1..c |-> b]
       ]_vars

\* three literal markers followed by 0x00 were written as escapes
EscapeCorrectWitness ==
    /\ pc = "compressed"
    /\ data = <<255, 255, 255, 0>>
    /\ compressed = <<255, 0, 255, 0, 255, 0, 0>>

-----------------------------------------------------------------------------
(* Reference definitions used to state the image properties *)

\* some channel of pixel (x, y) of im is above t
Above(im, t, x, y) ==
    LET p == im.px[y * im.w + x + 1] IN \E c \in 1..3 : p[c] > t

\* the columns and the rows of im that hold a pixel above t
ContentXs(im, t) == {x \in 0..(im.w - 1) : \E y \in 0..(im.h - 1) : Above(im, t, x, y)}
ContentYs(im, t) == {y \in 0..(im.h - 1) : \E x \in 0..(im.w - 1) : Above(im, t, x, y)}

SetMin(S) == CHOOSE m \in S : \A n \in S : m <= n
SetMax(S) == CHOOSE m \in S : \A n \in S : m >= n

\* sub is the part of im whose top left corner is (ox, oy)
IsRegionAt(sub, im, ox, oy) ==
    /\ sub.w >= 1 /\ sub.h >= 1
    /\ ox >= 0 /\ oy >= 0
    /\ ox + sub.w <= im.w /\ oy + sub.h <= im.h
    /\ Len(sub.px) = sub.w * sub.h
    /\ \A x \in 0..(sub.w - 1), y \in 0..(sub.h - 1) :
          sub.px[y * sub.w + x + 1] = im.px[(oy + y) * im.w + (ox + x) + 1]

-----------------------------------------------------------------------------
\* C2: for every image with at least one pixel above the threshold,
\* trim_black_borders returns exactly the smallest rectangle enclosing all
\* such pixels, also when they lie in a single row, column or pixel.
TrimIsBoundingBox ==
    (pc = "trimmed" /\ ContentXs(img, threshold) # {}) =>
        LET left == SetMin(ContentXs(img, threshold))
            right == SetMax(ContentXs(img, threshold))
            top == SetMin(ContentYs(img, threshold))
            bottom == SetMax(ContentYs(img, threshold))
        IN /\ trimmed.w = right - left + 1
           /\ trimmed.h = bottom - top + 1
           /\ IsRegionAt(trimmed, img, left, top)

-----------------------------------------------------------------------------
\* C9: the image trim_black_borders returns is at least 1 x 1 and is a
\* region of the original; when no pixel is above the threshold it is the
\* original image with its full bounds.
TrimNeverEmpty ==
    pc = "trimmed" =>
        /\ trimmed.w >= 1 /\ trimmed.h >= 1
        /\ \E ox \in 0..(img.w - 1), oy \in 0..(img.h - 1) :
              IsRegionAt(trimmed, img, ox, oy)
        /\ ContentXs(img, threshold) = {} => trimmed = img

\* an all-black 3 x 3 image was trimmed at threshold 10 and came back whole
TrimNeverEmptyWitness ==
    /\ pc = "trimmed"
    /\ threshold = 10
    /\ img.w = 3 /\ img.h = 3
    /\ \A k \in 1..9 : img.px[k] = <<0, 0, 0>>
    /\ trimmed = img

-----------------------------------------------------------------------------
\* C10: trimming the image trim_black_borders returned, with the same
\* threshold, returns that image unchanged.
TrimIdempotent ==
    pc = "trimmed_again" => again = trimmed

\* an image that lost a border in the first trim was trimmed a second time
TrimIdempotentWitness ==
    /\ pc = "trimmed_again"
    /\ trimmed.w < img.w
    /\ trimmed.h < img.h
    /\ again = trimmed

-----------------------------------------------------------------------------
\* C8: the packed list has w * h * 2 bytes; the bytes of pixel (x, y) at
\* offsets 2 * (y * w + x) and + 1 are the low and the high byte of the word
\* with r >> 3 in bits 15-11, g >> 2 in bits 10-5 and b >> 3 in bits 4-0;
\* the word is within 0..0xFFFF; (255,0,0),(0,0,0) packs to 00 F8 00 00.
PackLayout ==
    pc = "rle" =>
        /\ Len(rgb565_data) = trimmed.w * trimmed.h * 2
        /\ \A x \in 0..(trimmed.w - 1), y \in 0..(trimmed.h - 1) :
              LET p == trimmed.px[y * trimmed.w + x + 1]
                  o == 2 * (y * trimmed.w + x)
                  lo == rgb565_data[o + 1]
                  hi == rgb565_data[o + 2]
                  word == lo + 256 * hi
              IN /\ lo \in 0..255 /\ hi \in 0..255
                 /\ word \in 0..65535
                 /\ word = (p[1] \div 8) * 2048 + (p[2] \div 4) * 32 + (p[3] \div 8)
                 /\ word \div 2048 = p[1] \div 8
                 /\ (word \div 32) % 64 = p[2] \div 4
                 /\ word % 32 = p[3] \div 8
        /\ trimmed = [w |-> 2, h |-> 1, px |-> << <<255, 0, 0>>, <<0, 0, 0>> >>]
              => rgb565_data = <<0, 248, 0, 0>>

\* the 2 x 1 image red, black was packed
PackLayoutWitness ==
    /\ pc = "rle"
    /\ trimmed = [w |-> 2, h |-> 1, px |-> << <<255, 0, 0>>, <<0, 0, 0>> >>]
    /\ rgb565_data = <<0, 248, 0, 0>>

-----------------------------------------------------------------------------
\* C3: with use_rle the stored bytes are the RLE output and is_compressed is
\* true exactly when the RLE output is strictly shorter than the packed
\* bytes; otherwise, and always without use_rle, the packed bytes are stored
\* and is_compressed is false; the stored length never exceeds the packed one.
CompressionSelection ==
    pc \in {"write", "write_data", "write_defines", "write_descriptor", "done"} =>
        LET packed == Pack(trimmed)
            rle == rle_compress(packed)
        IN /\ original_size = Len(packed)
           /\ use_rle => (is_compressed <=> Len(rle) < Len(packed))
           /\ ~use_rle => ~is_compressed
           /\ is_compressed => rgb565_data = rle
           /\ ~is_compressed => rgb565_data = packed
           /\ Len(rgb565_data) <= Len(packed)

\* a tie: compression was requested and the RLE output is exactly as long as
\* the packed bytes, so the packed bytes were kept
CompressionSelectionWitness ==
    /\ pc = "write"
    /\ use_rle
    /\ Len(rle_compress(Pack(trimmed))) = original_size
    /\ ~is_compressed
    /\ rgb565_data = Pack(trimmed)

-----------------------------------------------------------------------------
-----------------------------------------------------------------------------
\* C13: compressed bytes reach the header file only after a self-check: by
\* the time a compressed data array is in the file, rle_decompress has been
\* run on the stored bytes and its output is the packed bytes.
SelfCheckBeforeEmit ==
    (asset.is_compressed = 1 \/ (is_compressed /\ "data" \in asset.sections))
        => /\ decompressed = rle_decompress(rgb565_data)
           /\ decompressed = Pack(trimmed)

-----------------------------------------------------------------------------
\* C14: the header file is opened only after the trim, pack and compression
\* stages are over, and a run that ends in the error exit leaves the header
\* file either untouched or complete (all three sections, closed).
NoPartialAsset ==
    /\ pc \in {"convert", "pack", "rle", "write"} => asset = NoFile
    /\ pc = "error" =>
          \/ asset = NoFile
          \/ asset.state = "closed" /\ asset.sections = Sections

-----------------------------------------------------------------------------
-----------------------------------------------------------------------------
\* d has four equal bytes in a row
HasRunOfFour(d) ==
    \E p \in 1..(Len(d) - 3) : \A k \in 1..3 : d[p + k] = d[p]

\* d has a byte 0xFF
HasMarker(d) == \E k \in 1..Len(d) : d[k] = MARKER

\* C20: the output of rle_compress is at most twice as long as its input;
\* for an input without a byte 0xFF it is at most as long as the input; and
\* it is as long as the input or longer (the case in which the converter
\* keeps the packed bytes) only if the input has no run of four equal bytes
\* or has a byte 0xFF.
EncoderSizeBound ==
    pc \in {"compressed", "decompress_loop", "decompressed"} =>
        /\ Len(compressed) <= 2 * Len(data)
        /\ ~HasMarker(data) => Len(compressed) <= Len(data)
        /\ Len(compressed) >= Len(data) =>
              ~HasRunOfFour(data) \/ HasMarker(data)

\* the worst case was compressed: every byte of the input is a literal 0xFF
\* and the output is twice as long
EncoderSizeBoundWitness ==
    /\ pc = "compressed"
    /\ Len(data) >= 2
    /\ \A k \in 1..Len(data) : data[k] = MARKER
    /\ Len(compressed) = 2 * Len(data)

-----------------------------------------------------------------------------
\* the place of a program position in the order of its program
Rank(p) ==
    CASE p = "rle_compress" -> 0
      [] p = "compress_loop" -> 1
      [] p = "compressed" -> 2
      [] p = "decompress_loop" -> 3
      [] p = "decompressed" -> 4
      [] p = "convert" -> 0
      [] p = "pack" -> 1
      [] p = "rle" -> 2
      [] p = "write" -> 3
      [] p = "write_data" -> 4
      [] p = "write_defines" -> 5
      [] p = "write_descriptor" -> 6
      [] p = "done" -> 7
      [] p = "error" -> 8

\* every iteration of the loops moves the read index forward and not past
\* the end of the input, and every change of position goes forward: trim,
\* pack, compress, build
StepsGoForward ==
    /\ (pc = "compress_loop" /\ pc' = "compress_loop") =>
           i < i' /\ i' <= Len(data)
    /\ (pc = "decompress_loop" /\ pc' = "decompress_loop") =>
           di < di' /\ di' <= Len(compressed)
    /\ pc' # pc => Rank(pc) < Rank(pc')

\* C17: rle_compress and rle_decompress terminate on every input, well
\* formed or not, because every iteration moves the read index forward but
\* never past the end; and convert_to_lvgl_rgb565 goes through trim, pack,
\* compress and build in this order, each at most once and never back.
Termination ==
    /\ [][StepsGoForward]_<<pc, i, di, compressed, decompressed>>
    /\ (pc = "rle_compress") ~> (pc = "compressed" /\ i >= Len(data))
    /\ (pc = "compressed") ~> (pc = "decompressed" /\ di = Len(compressed))

\* rle_decompress came to its end on a stream cut off after a marker and
\* one more byte
TerminationWitness ==
    /\ pc = "decompressed"
    /\ Len(compressed) >= 2
    /\ compressed[Len(compressed) - 1] = MARKER
    /\ compressed[Len(compressed)] # ESCAPE
    /\ (Len(compressed) >= 3 => compressed[Len(compressed) - 2] # MARKER)
    /\ di = Len(compressed)

-----------------------------------------------------------------------------
\* the number of literals of stream c, walked on its token boundaries from
\* index p as rle_decompress walks it: a byte other than the marker, an
\* escape pair, and a marker cut off by the end of the stream are one
\* literal each
RECURSIVE LiteralCount(_, _)
LiteralCount(c, p) ==
    IF p >= Len(c) THEN 0
    ELSE IF c[p + 1] # MARKER THEN 1 + LiteralCount(c, p + 1)
    ELSE IF p + 1 < Len(c) /\ c[p + 2] = ESCAPE THEN 1 + LiteralCount(c, p + 2)
    ELSE IF p + 2 < Len(c) THEN LiteralCount(c, p + 3)
    ELSE 1 + LiteralCount(c, p + 1)

\* C19: when the statistics loop of analyze_image_compression is over, runs
\* is the number of run tokens of the compressed stream and literals is the
\* number of its literals, an escape pair 0xFF, 0x00 being one literal and
\* no run.
StatsMatchTokens ==
    pc = "analyzed" =>
        /\ stats.runs = Len(TokenCounts(compressed, 0))
        /\ stats.literals = LiteralCount(compressed, 0)
        /\ stats.i = Len(compressed)

-----------------------------------------------------------------------------
\* C18: run on the image the converter was run on with trim_borders and
\* use_rle, analyze_trimmed_logo has the trimmed size, the packed bytes and
\* the compressed bytes of the converter, and returns their lengths.
ToolAgreesWithConverter ==
    (pc = "done" /\ analysis.pc = "returned") =>
        /\ analysis.img = trimmed
        /\ analysis.img.w = asset.w /\ analysis.img.h = asset.h
        /\ analysis.rgb565_data = Pack(trimmed)
        /\ analysis.rgb565_data = data
        /\ analysis.compressed = compressed
        /\ analysis.compressed = rle_compress(Pack(trimmed))
        /\ is_compressed => analysis.compressed = asset.data
        /\ analysis.returned = "sizes"
        /\ analysis.original = original_size
        /\ analysis.compressed_size = Len(compressed)

\* both ran on a logo with a black border that was cropped, and the
\* compressed bytes are fewer than the packed ones
ToolAgreesWithConverterWitness ==
    /\ pc = "done"
    /\ analysis.pc = "returned"
    /\ analysis.img.w * analysis.img.h < img.w * img.h
    /\ analysis.compressed_size < analysis.original
    /\ is_compressed

-----------------------------------------------------------------------------
\* the 16-bit words of the packed byte list d, low byte first
Words(d) == [k \in 1..(Len(d) \div 2) |-> d[2 * k - 1] + 256 * d[2 * k]]

\* the straight order: red in bits 15-11, green reduced to 6 bits in bits
\* 10-5, blue reduced to 5 bits in bits 4-0
StraightWord(p) == (p[1] \div 8) * 2048 + (p[2] \div 4) * 32 + (p[3] \div 8)

\* convert_logo.py has just packed, convert_logo_no_swap.py has packed
BothPacked ==
    /\ At("convert_logo", "rle")
    /\ ~At("convert_logo_no_swap", "convert")

\* the reduced green and the reduced blue of some pixel of im differ
GreenBlueDiffer(im) ==
    \E k \in 1..(im.w * im.h) : im.px[k][2] \div 4 # im.px[k][3] \div 8

-----------------------------------------------------------------------------
\* the header file tool t writes when it runs alone
AloneFile(t) ==
    LET c == convs[t]
    IN IF t = "convert_logo"
       THEN LET cur == IF c.trim_borders
                       THEN trim_black_borders(c.img, DefaultThreshold)
                       ELSE c.img
                packed == Pack(cur)
                rle == rle_compress(packed)
                keep == c.use_rle /\ Len(rle) < Len(packed)
                stored == IF keep THEN rle ELSE packed
            IN [preamble |-> <<0, cur.w, cur.h, IF keep THEN 1 ELSE 0>>,
                data |-> stored,
                defines |-> IF keep THEN <<Len(packed), 1>> ELSE <<0>>,
                descriptor |-> <<cur.w, cur.h, Len(stored)>>]
       ELSE [preamble |-> <<1, c.img.w, c.img.h, 0>>,
             data |-> no_swap_pack(c.img),
             defines |-> <<>>,
             descriptor |-> <<c.img.w, c.img.h, Len(no_swap_pack(c.img))>>]

\* both tools were given the same output path
SameOutput ==
    convs["convert_logo"].output = convs["convert_logo_no_swap"].output

\* C16 as stated: whatever the interleaving, once both conversions are over
\* each has produced the header file it produces when run alone.
IndependentConversions ==
    (\A t \in Tools : At(t, "done")) =>
        \A t \in Tools : files[convs[t].output] = AloneFile(t)

\* C16 amended: the conversions share no variables, and whatever the
\* interleaving a conversion that is over has produced the header file it
\* produces when run alone, provided the two write to different paths.
IndependentConversionsOnDistinctPaths ==
    \A t \in Tools :
        At(t, "done") =>
            /\ convs[t].rgb565_data = AloneFile(t).data
            /\ <<convs[t].cur.w, convs[t].cur.h, Len(convs[t].rgb565_data)>>
                   = AloneFile(t).descriptor
            /\ ~SameOutput => files[convs[t].output] = AloneFile(t)

\* both conversions are over, they wrote different files from different
\* images, and the files differ
IndependentConversionsOnDistinctPathsWitness ==
    /\ \A t \in Tools : At(t, "done")
    /\ ~SameOutput
    /\ convs["convert_logo"].img # convs["convert_logo_no_swap"].img
    /\ files[OtherOutput].data # files[DefaultOutput].data
    /\ files[OtherOutput] = AloneFile("convert_logo")

-----------------------------------------------------------------------------
\* the number of filter loops in text s
Blocks(s) == Cardinality({k \in 1..Len(s) : s[k] = filter_block})

\* the number of insertion points in text s
InsertionPoints(s) ==
    Cardinality({k \in 1..Len(s) : Occurs(insertion_point, s, k)})

\* text s with its filter loops taken out
WithoutBlocks(s) == SelectSeq(s, LAMBDA t : t # filter_block)

\* C21: once the script has run, and however often it runs again, a file
\* that did not hold the words "Filter out zero-length regions" at the start
\* holds the filter loop exactly once at each insertion point of the original
\* file and is otherwise the original; it was written once, by the first
\* run. A missing file, a file that held those words at the start, and a
\* file without insertion point are never written and stay as they were.
PatchIdempotent ==
    LET n == InsertionPoints(patch.original)
        marked == ContainsMarker(patch.original)
    IN  /\ patch.writes <= 1
        /\ patch.runs >= 1 =>
              /\ patch.exists /\ ~marked /\ n > 0 =>
                    /\ Blocks(patch.file) = n
                    /\ ~Contains(insertion_point, patch.file)
                    /\ WithoutBlocks(patch.file) = patch.original
                    /\ patch.writes = 1
              /\ ~patch.exists \/ marked \/ n = 0 =>
                    /\ patch.file = patch.original
                    /\ patch.writes = 0

\* the third run returned on a file that had two insertion points
PatchIdempotentWitness ==
    /\ pc = "returned"
    /\ patch.runs >= 3
    /\ InsertionPoints(patch.original) = 2
    /\ Blocks(patch.file) = 2
    /\ patch.writes = 1

\* C21 as stated: once the script has run, every file that is there holds
\* one more filter loop for each insertion point of the original file and no
\* insertion point is left without one; the file is written at most once; a
\* missing file and a file without insertion point stay as they were.
PatchedAtEveryInsertionPoint ==
    LET n == InsertionPoints(patch.original)
    IN  /\ patch.writes <= 1
        /\ patch.runs >= 1 =>
              /\ patch.exists =>
                    /\ Blocks(patch.file) = Blocks(patch.original) + n
                    /\ ~Contains(insertion_point, patch.file)
              /\ ~patch.exists \/ n = 0 => patch.file = patch.original

====
